---- MODULE Spec2Model ----
(***************************************************************************)
(* The standard scanner of asm/stdscan.c: the scanner state (read cursor,  *)
(* pushback stack, sub-state), the temporary-storage arena, and the        *)
(* operations stdscan_reset, stdscan, stdscan_pushback, stdscan_get and    *)
(* stdscan_set.  Characters are one-character strings; the line buffer is  *)
(* a sequence of characters followed by a terminating null at index        *)
(* Len(buf)+1; pointers into the buffer are 1-based indices, 0 is NULL.    *)
(***************************************************************************)
EXTENDS Integers, Sequences, FiniteSets, TLC

(***************************************************************************)
(* Bounds of the model.                                                    *)
(***************************************************************************)
\* addresses the allocator can hand out for pushback entries
MaxNodes == 2
\* arena entries the driver lets accumulate before it must reset
MaxArena == 3
\* snapshots (stdscan_get) the driver takes between two resets
MaxSnap == 1
\* longest line over the numeric-literal alphabet
MaxNumLen == 4
\* longest line over the operator alphabet
MaxOpLen == 3
\* longest line over the brace alphabet
MaxBrcLen == 4
\* longest line over the identifier alphabet
MaxIdLen == 3
\* longest line over the string alphabet
MaxStrLen == 3
\* longest line over the mixed alphabet
MaxMixLen == 3
\* scaled-down stand-ins for the limits of nasm.h / tokens.h
MAX_KEYWORD == 3
IDLEN_MAX == 5

STDSCAN_TEMP_DELTA == 256

Max(a, b) == IF a >= b THEN a ELSE b

(***************************************************************************)
(* The line buffer.                                                        *)
(***************************************************************************)
NUL == "NUL"
\* the double-quote character
DQUOTE == "DQUOTE"
\* the backquote character
BQUOTE == "BQUOTE"
\* what a read beyond the terminating null yields (no defined value)
OOB == "OOB"

At(buf, i) ==
    IF i >= 1 /\ i <= Len(buf) THEN buf[i]
    ELSE IF i = Len(buf) + 1 THEN NUL
    ELSE OOB

(***************************************************************************)
(* Character classes of nctype.h.                                          *)
(***************************************************************************)
Digits == {"0", "1"}
Lower == {"a", "e", "h", "p", "x", "k", "z", "t", "r"}
Upper == {"E", "H", "P", "X"}

nasm_isspace(c) == c = " "
nasm_isdigit(c) == c \in Digits
nasm_isalpha(c) == c \in Lower \cup Upper
nasm_isalnum(c) == nasm_isalpha(c) \/ nasm_isdigit(c)
nasm_isidstart(c) == nasm_isalpha(c) \/ c \in {"_", ".", "?", "@"}
nasm_isidchar(c) == nasm_isidstart(c) \/ nasm_isdigit(c) \/ c \in {"$", "#", "~"}
nasm_isbrcchar(c) == nasm_isidchar(c) \/ c = "-"
nasm_isnumstart(c) == nasm_isdigit(c) \/ c = "$"
nasm_isnumchar(c) == nasm_isalnum(c) \/ c = "_"

nasm_tolower(c) ==
    CASE c = "E" -> "e" [] c = "H" -> "h" [] c = "P" -> "p" [] c = "X" -> "x"
      [] OTHER -> c

RECURSIVE nasm_skip_spaces(_, _)
nasm_skip_spaces(buf, p) ==
    IF nasm_isspace(At(buf, p)) THEN nasm_skip_spaces(buf, p + 1) ELSE p

(***************************************************************************)
(* Tokens (struct tokenval).                                               *)
(***************************************************************************)
NullPtr == [k |-> "null", i |-> 0]
ArenaPtr(i) == [k |-> "arena", i |-> i]
BufPtr(i) == [k |-> "buf", i |-> i]

\* nasm_zero(*tv)
ZeroTok ==
    [t_type |-> "TOKEN_EOS", t_charptr |-> NullPtr, t_integer |-> 0, t_inttwo |-> 0,
     t_flag |-> {}, t_start |-> 0, t_len |-> 0]

TFLAG_BRC_ANY == {"TFLAG_BRC", "TFLAG_BRC_OPT"}

(***************************************************************************)
(* Collaborators: keyword lookup, register classes, number conversion,     *)
(* string unquoting.                                                       *)
(***************************************************************************)
R_AX == 1
R_K1 == 2
BRC_Z == 3

TokenData ==
    { [string |-> <<"a", "x">>, tokentype |-> "TOKEN_REG", num |-> R_AX,
       aux |-> 0, tokflag |-> {}],
      [string |-> <<"k", "1">>, tokentype |-> "TOKEN_REG", num |-> R_K1,
       aux |-> 0, tokflag |-> {"TFLAG_BRC_OPT"}],
      [string |-> <<"z">>, tokentype |-> "TOKEN_DECORATOR", num |-> BRC_Z,
       aux |-> 0, tokflag |-> {"TFLAG_BRC"}],
      [string |-> <<"p", "t", "r">>, tokentype |-> "TOKEN_ID", num |-> 0,
       aux |-> 0, tokflag |-> {"TFLAG_WARN"}] }

LowerCase(s) == [i \in 1..Len(s) |-> nasm_tolower(s[i])]

nasm_token_hash(token, tv) ==
    LET hit == {d \in TokenData : d.string = LowerCase(token)}
    IN  IF Len(token) <= MAX_KEYWORD /\ hit # {}
        THEN LET d == CHOOSE d \in hit : TRUE
             IN  [tv EXCEPT !.t_integer = d.num, !.t_inttwo = d.aux,
                            !.t_flag = d.tokflag, !.t_type = d.tokentype]
        ELSE [tv EXCEPT !.t_integer = 0, !.t_inttwo = 0, !.t_flag = {},
                        !.t_type = "TOKEN_ID"]

is_reg_class_OPMASKREG(reg) == reg = R_K1

radix_letter(c) ==
    CASE nasm_tolower(c) \in {"b", "y"} -> 2
      [] nasm_tolower(c) \in {"o", "q"} -> 8
      [] nasm_tolower(c) \in {"h", "x"} -> 16
      [] nasm_tolower(c) \in {"d", "t"} -> 10
      [] OTHER -> 0

\* the value of a digit character, 99 for a character that is no digit
numvalue(c) ==
    LET l == nasm_tolower(c)
    IN  CASE l = "0" -> 0 [] l = "1" -> 1 [] l = "a" -> 10 [] l = "e" -> 14
          [] l = "h" -> 17 [] l = "k" -> 20 [] l = "p" -> 25 [] l = "r" -> 27
          [] l = "t" -> 29 [] l = "x" -> 33 [] l = "z" -> 35
          [] OTHER -> 99

RECURSIVE readnum_digits(_, _, _, _, _)
readnum_digits(str, r, q, radix, result) ==
    IF r >= q THEN [value |-> result, error |-> FALSE]
    ELSE IF str[r] = "_" THEN readnum_digits(str, r + 1, q, radix, result)
    ELSE IF numvalue(str[r]) >= radix THEN [value |-> 0, error |-> TRUE]
    ELSE readnum_digits(str, r + 1, q, radix,
                        radix * result + numvalue(str[r]))

readnum(str) ==
    LET len == Len(str)
        pfx0 == len > 2 /\ str[1] = "0" /\ radix_letter(str[2]) # 0
        pradix == IF pfx0 THEN radix_letter(str[2])
                  ELSE IF len > 1 /\ str[1] = "$" THEN 16 ELSE 0
        plen == IF pfx0 THEN 2 ELSE IF len > 1 /\ str[1] = "$" THEN 1 ELSE 0
        sradix == IF len > 1 THEN radix_letter(str[len]) ELSE 0
        radix == IF pradix > sradix THEN pradix
                 ELSE IF sradix > pradix THEN sradix ELSE 10
        r == IF pradix > sradix THEN 1 + plen ELSE 1
        q == IF sradix > pradix THEN len ELSE len + 1
    IN  IF len = 0 THEN [value |-> 0, error |-> TRUE]
        ELSE readnum_digits(str, r, q, radix, 0)

\* the index at which unquoting stops: the closing quote or the null
RECURSIVE unquote_end(_, _, _)
unquote_end(buf, p, bq) ==
    IF At(buf, p) \in {NUL, OOB, bq} THEN p ELSE unquote_end(buf, p + 1, bq)

nasm_unquote(buf, str) ==
    LET e == unquote_end(buf, str + 1, At(buf, str))
    IN  [ep |-> e, len |-> e - (str + 1)]

(***************************************************************************)
(* The arena (stdscan_tempstorage) and the part of the program state one   *)
(* scan works on: m.bufptr is scan.bufptr, m.temp the arena's entries in   *)
(* allocation order (stdscan_templen is its length), m.tv the caller's     *)
(* token, m.ev the collaborator calls and diagnostics made, m.hi the       *)
(* highest buffer index read.                                              *)
(***************************************************************************)
TextBlock(text) == [kind |-> "text", text |-> text, bufptr |-> 0, pushback |-> 0,
                    sstate |-> "ss_init"]
StateBlock(st) == [kind |-> "state", text |-> <<>>, bufptr |-> st.bufptr,
                   pushback |-> st.pushback, sstate |-> st.sstate]

stdscan_alloc(m, blk) ==
    [m EXCEPT !.tempsize = IF Len(m.temp) >= @ THEN @ + STDSCAN_TEMP_DELTA ELSE @,
              !.temp = Append(@, blk)]

\* a variant that frees the entry below the most recent one as well
stdscan_pop_two(m) == [m EXCEPT !.temp = SubSeq(@, 1, Len(@) - 2)]

stdscan_pop(m) == [m EXCEPT !.temp = SubSeq(@, 1, Len(@) - 1)]

stdscan_copy(buf, m, p, len) ==
    stdscan_alloc([m EXCEPT !.hi = Max(@, p + len - 1)],
                  TextBlock([i \in 1..len |-> At(buf, p + i - 1)]))

Read(m, i) == [m EXCEPT !.hi = Max(@, i)]
Event(m, e) == [m EXCEPT !.ev = Append(@, e)]
Ret(m, type) == [m EXCEPT !.tv.t_type = type]

Call(fn, msg, text) == [fn |-> fn, msg |-> msg, text |-> text]
Text(m, ptr) == m.temp[ptr.i].text

\* tv->t_charptr = stdscan_copy(p, len)
SetPtr(c) == [c EXCEPT !.tv.t_charptr = ArenaPtr(Len(c.temp))]
CopyToTok(buf, m, p, len) == SetPtr(stdscan_copy(buf, m, p, len))

\* nasm_token_hash(tv->t_charptr, tv)
Hash(m) ==
    [Event(m, Call("nasm_token_hash", "", Text(m, m.tv.t_charptr)))
       EXCEPT !.tv = nasm_token_hash(Text(m, m.tv.t_charptr), m.tv)]

(***************************************************************************)
(* stdscan_handle_brace and stdscan_parse_braces.  The steps of a function *)
(* are operators that take the values computed so far: r is the start of   *)
(* the content run, e its end, q the first non-blank after it.             *)
(***************************************************************************)
\* a variant that leaves an opmask register in braces a plain register
stdscan_handle_brace_plain(m) ==
    IF m.tv.t_flag \cap TFLAG_BRC_ANY = {}
    THEN Ret(Event(m, Call("nasm_nonfatal", "`{%s}' is not a valid token",
                           Text(m, m.tv.t_charptr))),
             "TOKEN_INVALID")
    ELSE m

stdscan_handle_brace(m) ==
    IF m.tv.t_flag \cap TFLAG_BRC_ANY = {}
    THEN Ret(Event(m, Call("nasm_nonfatal", "`{%s}' is not a valid token",
                           Text(m, m.tv.t_charptr))),
             "TOKEN_INVALID")
    ELSE IF "TFLAG_BRC_OPT" \in m.tv.t_flag
            /\ is_reg_class_OPMASKREG(m.tv.t_integer)
    THEN Ret(m, "TOKEN_OPMASK")
    ELSE m

RECURSIVE brc_end(_, _)
brc_end(buf, p) == IF nasm_isbrcchar(At(buf, p)) THEN brc_end(buf, p + 1) ELSE p

braces_close(buf, m, r, e, q) ==
    IF At(buf, q) # "}"
    THEN Ret(Event(Read([m EXCEPT !.bufptr = q], q),
                   Call("nasm_nonfatal", "unterminated braces at end of line",
                        <<>>)),
             "TOKEN_INVALID")
    ELSE IF e - r > MAX_KEYWORD
    THEN Ret(Event(Read([m EXCEPT !.bufptr = q + 1], q),
                   Call("nasm_nonfatal", "`{%.*s}' is not a valid token",
                        SubSeq(buf, r, e - 1))),
             "TOKEN_INVALID")
    ELSE stdscan_handle_brace(Hash(Read([m EXCEPT !.bufptr = q + 1], q)))

braces_copy(buf, m, r, e) ==
    braces_close(buf,
                 IF e - r <= MAX_KEYWORD THEN CopyToTok(buf, m, r, e - r) ELSE m,
                 r, e, nasm_skip_spaces(buf, e))

braces_run(buf, m, r) == braces_copy(buf, m, r, brc_end(buf, r))

stdscan_parse_braces(buf, m) ==
    braces_run(buf, m, nasm_skip_spaces(buf, m.bufptr + 1))

(***************************************************************************)
(* stdscan_token: identifiers.  r is the first character after an optional *)
(* $, e the first character that is no identifier character.               *)
(***************************************************************************)
RECURSIVE id_end(_, _)
id_end(buf, p) == IF nasm_isidchar(At(buf, p)) THEN id_end(buf, p + 1) ELSE p

id_brc(m) == IF "TFLAG_BRC" \notin m.tv.t_flag THEN m ELSE Ret(m, "TOKEN_ID")

id_warn(m) ==
    id_brc(IF "TFLAG_WARN" \in m.tv.t_flag
           THEN Event(m, Call("nasm_warn", "`%s' is not a NASM keyword",
                              Text(m, m.tv.t_charptr)))
           ELSE m)

id_resolve(m, is_sym, len) ==
    IF is_sym \/ len > MAX_KEYWORD THEN Ret(m, "TOKEN_ID") ELSE id_warn(Hash(m))

\* a variant that copies the whole spelling however long it is
id_copy_full(buf, m, is_sym, r, e) ==
    id_resolve(CopyToTok(buf, Read([m EXCEPT !.bufptr = e], e), r, e - r),
               is_sym, e - r)

id_copy(buf, m, is_sym, r, e) ==
    id_resolve(CopyToTok(buf, Read([m EXCEPT !.bufptr = e], e), r,
                         IF e - r < IDLEN_MAX THEN e - r ELSE IDLEN_MAX - 1),
               is_sym, e - r)

id_run(buf, m, is_sym, r) == id_copy(buf, m, is_sym, r, id_end(buf, r + 1))

stdscan_identifier(buf, m) ==
    IF At(buf, m.bufptr) = "$"
    THEN id_run(buf, m, TRUE, m.bufptr + 1)
    ELSE id_run(buf, m, FALSE, m.bufptr)

(***************************************************************************)
(* stdscan_token: the Here and Base tokens.                                *)
(***************************************************************************)
\* a variant that knows no Base token
stdscan_here_single(buf, m) ==
    Ret(Read([m EXCEPT !.bufptr = @ + 1], m.bufptr + 1), "TOKEN_HERE")

\* a variant that recognises the Here token without consuming its $
stdscan_here_stay(buf, m) ==
    Ret(Read(m, m.bufptr + 1), "TOKEN_HERE")

stdscan_here(buf, m) ==
    IF At(buf, m.bufptr + 1) = "$"
    THEN Ret(Read([m EXCEPT !.bufptr = @ + 2], m.bufptr + 1), "TOKEN_BASE")
    ELSE Ret(Read([m EXCEPT !.bufptr = @ + 1], m.bufptr + 1), "TOKEN_HERE")

(***************************************************************************)
(* stdscan_token: numbers.  s.p is scan.bufptr inside the loop; the loop   *)
(* leaves it one past the character that ended the number.                 *)
(***************************************************************************)
\* c = *scan.bufptr++
number_next(s) == [s EXCEPT !.p = @ + 1, !.hi = Max(@, s.p)]

IsSign(c) == c \in {"+", "-"}

\* if (*scan.bufptr == '+' || *scan.bufptr == '-') scan.bufptr++
number_sign(buf, s) ==
    [s EXCEPT !.hi = Max(@, s.p), !.p = IF IsSign(At(buf, s.p)) THEN @ + 1 ELSE @]

\* a variant whose exponent leaves a following sign alone
RECURSIVE number_loop_keep_sign(_, _)
number_loop_keep_sign(buf, s) ==
    LET c == At(buf, s.p)
    IN  IF ~s.is_hex /\ c \in {"e", "E"}
        THEN number_loop_keep_sign(buf, [number_next(s) EXCEPT !.has_e = TRUE])
        ELSE IF c \in {"H", "h", "X", "x"}
        THEN number_loop_keep_sign(buf, [number_next(s) EXCEPT !.is_hex = TRUE])
        ELSE IF c \in {"P", "p"}
        THEN number_loop_keep_sign(buf, [number_sign(buf, number_next(s))
                                           EXCEPT !.is_float = TRUE])
        ELSE IF nasm_isnumchar(c)
        THEN number_loop_keep_sign(buf, number_next(s))
        ELSE IF c = "."
        THEN number_loop_keep_sign(buf, [number_next(s) EXCEPT !.is_float = TRUE])
        ELSE number_next(s)

RECURSIVE number_loop(_, _)
number_loop(buf, s) ==
    LET c == At(buf, s.p)
    IN  IF ~s.is_hex /\ c \in {"e", "E"}
        THEN number_loop(buf, [number_sign(buf, number_next(s))
                                 EXCEPT !.has_e = TRUE,
                                        !.is_float = @ \/ IsSign(At(buf, s.p + 1))])
        ELSE IF c \in {"H", "h", "X", "x"}
        THEN number_loop(buf, [number_next(s) EXCEPT !.is_hex = TRUE])
        ELSE IF c \in {"P", "p"}
        THEN number_loop(buf, [number_sign(buf, number_next(s))
                                 EXCEPT !.is_float = TRUE])
        ELSE IF nasm_isnumchar(c)
        THEN number_loop(buf, number_next(s))
        ELSE IF c = "."
        THEN number_loop(buf, [number_next(s) EXCEPT !.is_float = TRUE])
        ELSE number_next(s)

\* a variant in which a radix mark keeps any literal from being a float
number_is_float_unless_hex(s) == (s.is_float \/ s.has_e) /\ ~s.is_hex

\* a variant in which an exponent makes a float whatever the radix marks
number_is_float_any_e(s) == s.is_float \/ s.has_e

\* has_e && !is_hex makes it floating-point: 1e13 is, 1e13h is not
number_is_float(s) == s.is_float \/ (s.has_e /\ ~s.is_hex)

\* after readnum and stdscan_pop
number_result(m, rn_error) ==
    IF rn_error THEN Ret(m, "TOKEN_ERRNUM")
    ELSE Ret([m EXCEPT !.tv.t_charptr = NullPtr], "TOKEN_NUM")

number_convert(c, text, n) ==
    number_result(stdscan_pop(Event([c EXCEPT !.tv.t_integer = n.value],
                                    Call("readnum", "", text))),
                  n.error)

number_emit(c, is_float) ==
    IF is_float
    THEN Ret(SetPtr(c), "TOKEN_FLOAT")
    ELSE number_convert(c, c.temp[Len(c.temp)].text,
                        readnum(c.temp[Len(c.temp)].text))

number_copy(buf, m, r, s) ==
    number_emit(stdscan_copy(buf, [m EXCEPT !.bufptr = s.p - 1, !.hi = s.hi],
                             r, s.p - 1 - r),
                number_is_float(s))

stdscan_number(buf, m) ==
    number_copy(buf, m, m.bufptr,
                number_loop(buf, [p |-> IF At(buf, m.bufptr) = "$"
                                        THEN m.bufptr + 1 ELSE m.bufptr,
                                  is_hex |-> At(buf, m.bufptr) = "$",
                                  is_float |-> FALSE, has_e |-> FALSE,
                                  hi |-> m.hi]))

(***************************************************************************)
(* stdscan_token: quoted strings.                                          *)
(***************************************************************************)
\* a variant that steps over the character that ends the string whatever
\* it is
string_close_skip(buf, m, start_quote, u) ==
    Ret(Read([m EXCEPT !.tv.t_inttwo = u.len, !.bufptr = u.ep + 1], u.ep),
        IF At(buf, u.ep) # start_quote THEN "TOKEN_ERRSTR" ELSE "TOKEN_STR")

string_close(buf, m, start_quote, u) ==
    IF At(buf, u.ep) # start_quote
    THEN Ret(Read([m EXCEPT !.tv.t_inttwo = u.len, !.bufptr = u.ep], u.ep),
             "TOKEN_ERRSTR")
    ELSE Ret(Read([m EXCEPT !.tv.t_inttwo = u.len, !.bufptr = u.ep + 1], u.ep),
             "TOKEN_STR")

stdscan_string(buf, m) ==
    string_close(buf,
                 Event([m EXCEPT !.tv.t_charptr = BufPtr(m.bufptr)],
                       Call("nasm_unquote", "", <<>>)),
                 At(buf, m.bufptr), nasm_unquote(buf, m.bufptr))

(***************************************************************************)
(* stdscan_token: operators and ordinary characters.  A second character   *)
(* is examined only after the first one matched, a third only after the    *)
(* second one did.                                                         *)
(***************************************************************************)
Op(n, type, look) == [n |-> n, type |-> type, look |-> look]

\* a variant that examines all three characters before comparing any
op_match_eager(c0, c1, c2) ==
    IF c0 = ">" /\ c1 = ">"
    THEN IF c2 = ">" THEN Op(3, "TOKEN_SAR", 3) ELSE Op(2, "TOKEN_SHR", 3)
    ELSE IF c0 = "<" /\ c1 = "<"
    THEN Op(IF c2 = "<" THEN 3 ELSE 2, "TOKEN_SHL", 3)
    ELSE IF <<c0, c1>> \in {<<"/", "/">>, <<"%", "%">>, <<"=", "=">>,
                            <<"<", ">">>, <<"!", "=">>, <<">", "=">>,
                            <<"&", "&">>, <<"^", "^">>, <<"|", "|">>}
    THEN Op(2, CASE c0 = "/" -> "TOKEN_SDIV" [] c0 = "%" -> "TOKEN_SMOD"
                 [] c0 = "=" -> "TOKEN_EQ" [] c0 = "<" -> "TOKEN_NE"
                 [] c0 = "!" -> "TOKEN_NE" [] c0 = ">" -> "TOKEN_GE"
                 [] c0 = "&" -> "TOKEN_DBL_AND" [] c0 = "^" -> "TOKEN_DBL_XOR"
                 [] OTHER -> "TOKEN_DBL_OR", 3)
    ELSE IF c0 = "<" /\ c1 = "="
    THEN IF c2 = ">" THEN Op(3, "TOKEN_LEG", 3) ELSE Op(2, "TOKEN_LE", 3)
    ELSE Op(1, c0, 3)

\* the characters consumed, the token type and the characters examined
op_match(c0, c1, c2) ==
    IF c0 = ">" /\ c1 = ">"
    THEN IF c2 = ">" THEN Op(3, "TOKEN_SAR", 3) ELSE Op(2, "TOKEN_SHR", 3)
    ELSE IF c0 = "<" /\ c1 = "<"
    THEN Op(IF c2 = "<" THEN 3 ELSE 2, "TOKEN_SHL", 3)
    ELSE IF c0 = "/" /\ c1 = "/" THEN Op(2, "TOKEN_SDIV", 2)
    ELSE IF c0 = "%" /\ c1 = "%" THEN Op(2, "TOKEN_SMOD", 2)
    ELSE IF c0 = "=" /\ c1 = "=" THEN Op(2, "TOKEN_EQ", 2)
    ELSE IF c0 = "<" /\ c1 = ">" THEN Op(2, "TOKEN_NE", 2)
    ELSE IF c0 = "!" /\ c1 = "=" THEN Op(2, "TOKEN_NE", 2)
    ELSE IF c0 = "<" /\ c1 = "="
    THEN IF c2 = ">" THEN Op(3, "TOKEN_LEG", 3) ELSE Op(2, "TOKEN_LE", 3)
    ELSE IF c0 = ">" /\ c1 = "=" THEN Op(2, "TOKEN_GE", 2)
    ELSE IF c0 = "&" /\ c1 = "&" THEN Op(2, "TOKEN_DBL_AND", 2)
    ELSE IF c0 = "^" /\ c1 = "^" THEN Op(2, "TOKEN_DBL_XOR", 2)
    ELSE IF c0 = "|" /\ c1 = "|" THEN Op(2, "TOKEN_DBL_OR", 2)
    ELSE Op(1, c0, IF c0 \in {">", "<", "/", "%", "=", "!", "&", "^", "|"}
                   THEN 2 ELSE 1)

op_take(m, o) ==
    Ret(Read([m EXCEPT !.bufptr = @ + o.n], m.bufptr + o.look - 1), o.type)

\* a variant that never looks at a third character
stdscan_operator_two(buf, m) ==
    op_take(m, op_match(At(buf, m.bufptr), At(buf, m.bufptr + 1), NUL))

stdscan_operator(buf, m) ==
    op_take(m, op_match(At(buf, m.bufptr), At(buf, m.bufptr + 1),
                        At(buf, m.bufptr + 2)))

(***************************************************************************)
(* stdscan_token: the dispatch on the character(s) at the cursor; a $ at   *)
(* the cursor makes the conditions examine the character after it.         *)
(***************************************************************************)
token_dispatch(buf, m, c0, c1) ==
    IF nasm_isidstart(c0) \/ (c0 = "$" /\ nasm_isidstart(c1))
    THEN stdscan_identifier(buf, m)
    ELSE IF c0 = "$" /\ ~nasm_isnumchar(c1)
    THEN stdscan_here(buf, m)
    ELSE IF nasm_isnumstart(c0)
    THEN stdscan_number(buf, m)
    ELSE IF c0 \in {"'", DQUOTE, BQUOTE}
    THEN stdscan_string(buf, m)
    ELSE IF c0 = "{"
    THEN stdscan_parse_braces(buf, m)
    ELSE IF c0 = ";"
    THEN Ret(m, "TOKEN_EOS")
    ELSE stdscan_operator(buf, m)

stdscan_token(buf, m) ==
    token_dispatch(buf,
                   IF At(buf, m.bufptr) = "$" THEN Read(m, m.bufptr + 1) ELSE m,
                   At(buf, m.bufptr), At(buf, m.bufptr + 1))

(***************************************************************************)
(* stdscan without pending pushback: skip blanks, record the start, stop   *)
(* at the terminating null, otherwise scan one token and set its length.   *)
(***************************************************************************)
set_len(m) == [m EXCEPT !.tv.t_len = m.bufptr - m.tv.t_start]

\* a variant that consumes the ; that starts a comment
fresh_at_consume(buf, m, p) ==
    IF At(buf, p) = NUL
    THEN Ret(m, "TOKEN_EOS")
    ELSE IF At(buf, p) = ";"
    THEN set_len(Ret([m EXCEPT !.bufptr = @ + 1], "TOKEN_EOS"))
    ELSE set_len(stdscan_token(buf, m))

fresh_at(buf, m, p) ==
    IF At(buf, p) = NUL
    THEN Ret(m, "TOKEN_EOS")
    ELSE set_len(stdscan_token(buf, m))

fresh_start(buf, m, p) ==
    fresh_at(buf, Read([m EXCEPT !.tv = [ZeroTok EXCEPT !.t_start = p],
                                 !.bufptr = p], p), p)

stdscan_fresh(buf, m) == fresh_start(buf, m, nasm_skip_spaces(buf, m.bufptr))

(***************************************************************************)
(* The pushback stack: entries live at the addresses 1..MaxNodes, 0 is     *)
(* NULL.  g.scan is the scanner state, g.heap the entries.                 *)
(***************************************************************************)
Nodes == 1..MaxNodes
FreeNode == [live |-> FALSE, prev |-> 0, tv |-> ZeroTok]

\* scan.pushback points at an entry that has been freed
Dangling(g) == g.scan.pushback # 0 /\ ~g.heap[g.scan.pushback].live

\* a variant that drops the whole stack with the top entry
stdscan_pushback_pop_all(g) ==
    [scan |-> [g.scan EXCEPT !.pushback = 0],
     heap |-> [g.heap EXCEPT ![g.scan.pushback] = FreeNode]]

stdscan_pushback_pop(g) ==
    LET ps == g.heap[g.scan.pushback].prev
    IN  [scan |-> [g.scan EXCEPT !.pushback = ps],
         heap |-> [g.heap EXCEPT ![g.scan.pushback] = FreeNode]]

\* a variant that links the new entry without copying the token into it
stdscan_pushback_nocopy(g, ts, t) ==
    [scan |-> [g.scan EXCEPT !.pushback = ts],
     heap |-> [g.heap EXCEPT ![ts] = [live |-> TRUE, prev |-> g.scan.pushback,
                                      tv |-> ZeroTok]]]

\* ts is the address nasm_new returns
stdscan_pushback(g, ts, t) ==
    [scan |-> [g.scan EXCEPT !.pushback = ts],
     heap |-> [g.heap EXCEPT ![ts] = [live |-> TRUE, prev |-> g.scan.pushback,
                                      tv |-> t]]]

\* while (scan.pushback) stdscan_pushback_pop(): stops early, with the
\* dangling head left in place, when the head has already been freed
RECURSIVE pop_all(_)
pop_all(g) ==
    IF g.scan.pushback = 0 \/ Dangling(g) THEN g
    ELSE pop_all(stdscan_pushback_pop(g))

\* a variant whose snapshot forgets the pushback stack
stdscan_get_nopush(st) == StateBlock([st EXCEPT !.pushback = 0])

stdscan_get(st) == StateBlock(st)

stdscan_set(state) ==
    [bufptr |-> state.bufptr, pushback |-> state.pushback,
     sstate |-> state.sstate]

\* the tokens the pushback stack delivers, top first; fuel bounds the walk,
\* and a freed entry shows as the token of type "FREED"
RECURSIVE Pending(_, _, _)
Pending(heap, head, fuel) ==
    IF head = 0 \/ fuel = 0 THEN <<>>
    ELSE IF ~heap[head].live THEN <<[ZeroTok EXCEPT !.t_type = "FREED"]>>
    ELSE <<heap[head].tv>> \o Pending(heap, heap[head].prev, fuel - 1)

(***************************************************************************)
(* The lines the driver feeds the scanner.                                 *)
(***************************************************************************)
SeqsUpTo(S, n) == UNION {[1..k -> S] : k \in 0..n}
Rep(c, n) == [i \in 1..n |-> c]

NumChars == {"1", "e", "E", "h", "X", "p", ".", "+", "-", "$"}
OpChars == {">", "<", "=", "/", "%", "!", "&", "^", "|", "+"}
BrcChars == {"{", "}", "z", "k", "1", "-", " "}
IdChars == {"a", "x", "k", "1", "z", "$", "_", " "}
StrChars == {"'", DQUOTE, "a", " "}
MixChars == {"a", "1", "$", "{", "}", ";", " ", ">"}

\* lines that reach the limits and the spellings the alphabets leave out
LimitLines ==
    { Rep("a", IDLEN_MAX + 1), <<"$">> \o Rep("a", IDLEN_MAX),
      Rep("a", MAX_KEYWORD + 1), Rep("a", MAX_KEYWORD),
      <<"{">> \o Rep("a", MAX_KEYWORD + 1) \o <<"}">>,
      <<"{">> \o Rep("a", MAX_KEYWORD + 1),
      <<"{">> \o Rep("a", MAX_KEYWORD + 1) \o <<" ", "}">>,
      <<"{">> \o Rep("a", MAX_KEYWORD + 1) \o <<" ", "a">>,
      <<"{">> \o Rep("a", MAX_KEYWORD) \o <<"}">>,
      <<"{", "z", "-", "}">>, <<"{", "-", "z">>, <<"{", "k", "1", "}", "}">>,
      <<"{", "p", "t", "r", "}">>, <<"{", "a", "x", " ", "+">>,
      <<"p", "t", "r">>, <<"P", "t", "r", " ", "a", "x">>,
      <<"0", "x", "1", "e">>, <<"0", "x", "1", "e", "h">>,
      <<"1", "e", "1", "_", "h">>, <<"0", "1", "e", "1", "p">>,
      <<"1", "E", "1", "1">>, <<"1", "E", "1", "H">>, <<"1", "e", "1", "X">>,
      <<"1", "x", "E", "-", "1">>, <<"1", "e", "-", "1">>, <<"1", "E", "+", "h">>,
      <<"1", "P", "-", "1">>, <<"$", "1", "E", "-">>, <<"1", "a", "e", "h">>,
      <<"%", "%">>, <<"%">>, <<"%", "=">>, <<"^", "^">>, <<"^">>, <<"^", "|">>,
      <<"<", "=", ">", ">">>, <<">", ">", ">", ">">>, <<"<", "<", "<", "=">>,
      <<BQUOTE, "a", BQUOTE>>, <<BQUOTE, "a", "'">>, <<"'", "a", " ", "a", "'", "1">> }

LexLines ==
    SeqsUpTo(NumChars, MaxNumLen) \cup SeqsUpTo(OpChars, MaxOpLen)
      \cup SeqsUpTo(BrcChars, MaxBrcLen) \cup SeqsUpTo(IdChars, MaxIdLen)
      \cup SeqsUpTo(StrChars, MaxStrLen) \cup SeqsUpTo(MixChars, MaxMixLen)
      \cup LimitLines

ProtoLines == { <<"a", " ", "1">>, <<"1", "e">> }

\* a token a caller makes up itself and pushes back
TokA == [ZeroTok EXCEPT !.t_type = ",", !.t_start = 1, !.t_len = 1]
SynthTokens == {TokA}

(***************************************************************************)
(* The state.  line is the caller's buffer; scan, heap, tempstorage,       *)
(* tempsize and tv are the program's; ub records that the program has      *)
(* used a freed pushback entry, after which nothing is known about it.     *)
(* The remaining variables record the history the properties speak about:  *)
(* op the last operation and prevop the one before it, pre the scanner     *)
(* state before the last operation, arg the token                          *)
(* last pushed back, sarg the snapshot last returned or restored, ev and   *)
(* hi the calls made and the highest index read by the last scan, run the  *)
(* tokens of the latest run of consecutive pushbacks, served the number of *)
(* scans made since it (phase is "run" from the first pushback of the run  *)
(* to the scan after its last token was delivered again, runbase is the    *)
(* head before the run),                                                   *)
(* snaps what was pending when each snapshot was taken, nscan the number   *)
(* of tokens scanned since the reset (-1 once another operation came in    *)
(* between).                                                               *)
(***************************************************************************)
VARIABLES line, scan, heap, tempstorage, tempsize, tv, ub,
          op, prevop, pre, arg, sarg, ev, hi, run, served, phase, runbase,
          snaps, nscan

vars == <<line, scan, heap, tempstorage, tempsize, tv, ub,
          op, prevop, pre, arg, sarg, ev, hi, run, served, phase, runbase,
          snaps, nscan>>

InitWith(L) ==
    /\ line \in L
    /\ scan = [bufptr |-> 0, pushback |-> 0, sstate |-> "ss_init"]
    /\ heap = [a \in Nodes |-> FreeNode]
    /\ tempstorage = <<>>
    /\ tempsize = 0
    /\ tv = ZeroTok
    /\ ub = FALSE
    /\ op = "init"
    /\ prevop = "init"
    /\ pre = scan
    /\ arg = ZeroTok
    /\ sarg = 0
    /\ ev = <<>>
    /\ hi = 0
    /\ run = <<>>
    /\ served = 0
    /\ phase = "idle"
    /\ runbase = 0
    /\ snaps = {}
    /\ nscan = -1

Init == InitWith(ProtoLines)
InitLex == InitWith(LexLines)

\* stdscan_reset(buffer)
Reset(buffer) ==
    LET g == pop_all([scan |-> scan, heap |-> heap])
    IN  /\ ~ub
        /\ line' = buffer
        /\ heap' = g.heap
        /\ tempstorage' = <<>>
        /\ IF Dangling(g)
           THEN /\ ub' = TRUE
                /\ \E ps \in {0, g.scan.pushback} :
                      scan' = [bufptr |-> 1, pushback |-> ps,
                               sstate |-> "ss_init"]
           ELSE /\ ub' = FALSE
                /\ scan' = [bufptr |-> 1, pushback |-> 0, sstate |-> "ss_init"]
        /\ op' = "reset"
        /\ prevop' = op
        /\ pre' = scan
        /\ arg' = ZeroTok
        /\ sarg' = 0
        /\ ev' = <<>>
        /\ hi' = 0
        /\ run' = <<>>
        /\ served' = 0
        /\ phase' = "idle"
        /\ runbase' = 0
        /\ snaps' = {}
        /\ nscan' = 0
        /\ UNCHANGED <<tempsize, tv>>

\* stdscan with a pending pushback entry: deliver it and pop it
ScanPop ==
    /\ op' = "scan_pop"
    /\ ev' = <<>>
    /\ hi' = 0
    /\ nscan' = -1
    /\ UNCHANGED <<tempstorage, tempsize>>
    /\ IF Dangling([scan |-> scan, heap |-> heap])
       THEN /\ ub' = TRUE
            /\ tv' \in SynthTokens \cup {ZeroTok}
            /\ \E ps \in {0} \cup Nodes : scan' = [scan EXCEPT !.pushback = ps]
            /\ heap' = heap
       ELSE /\ ub' = FALSE
            /\ tv' = heap[scan.pushback].tv
            /\ scan' = stdscan_pushback_pop([scan |-> scan, heap |-> heap]).scan
            /\ heap' = stdscan_pushback_pop([scan |-> scan, heap |-> heap]).heap

\* stdscan without one: r is what stdscan_fresh leaves
ScanFresh(r) ==
    /\ scan.bufptr # 0
    /\ Len(r.temp) <= MaxArena
    /\ op' = "scan_fresh"
    /\ scan' = [scan EXCEPT !.bufptr = r.bufptr]
    /\ tempstorage' = r.temp
    /\ tempsize' = r.tempsize
    /\ tv' = r.tv
    /\ ev' = r.ev
    /\ hi' = r.hi
    /\ nscan' = IF nscan >= 0 /\ r.tv.t_type # "TOKEN_EOS"
                THEN nscan + 1 ELSE nscan
    /\ UNCHANGED <<heap, ub>>

\* stdscan(private_data, tv)
Scan ==
    /\ ~ub
    /\ prevop' = op
    /\ pre' = scan
    /\ arg' = ZeroTok
    /\ sarg' = 0
    /\ IF phase = "run" /\ served <= Len(run)
       THEN /\ served' = served + 1
            /\ UNCHANGED <<run, phase, runbase>>
       ELSE /\ served' = 0
            /\ run' = <<>>
            /\ phase' = "idle"
            /\ runbase' = 0
    /\ UNCHANGED <<line, snaps>>
    /\ IF scan.pushback # 0
       THEN ScanPop
       ELSE ScanFresh(stdscan_fresh(line, [bufptr |-> scan.bufptr,
                                           temp |-> tempstorage,
                                           tempsize |-> tempsize, tv |-> tv,
                                           ev |-> <<>>, hi |-> 0]))

\* stdscan_pushback(tv)
Pushback(t) ==
    /\ ~ub
    /\ \E ts \in Nodes :
          /\ ~heap[ts].live
          /\ LET g == stdscan_pushback([scan |-> scan, heap |-> heap], ts, t)
             IN  scan' = g.scan /\ heap' = g.heap
    /\ op' = "pushback"
    /\ prevop' = op
    /\ pre' = scan
    /\ arg' = t
    /\ sarg' = 0
    /\ ev' = <<>>
    /\ hi' = 0
    /\ run' = IF op = "pushback" THEN Append(run, t) ELSE <<t>>
    /\ runbase' = IF op = "pushback" THEN runbase ELSE scan.pushback
    /\ served' = 0
    /\ phase' = "run"
    /\ nscan' = -1
    /\ UNCHANGED <<line, tempstorage, tempsize, tv, ub, snaps>>

\* stdscan_get()
Get ==
    LET a == stdscan_alloc([temp |-> tempstorage, tempsize |-> tempsize],
                           stdscan_get(scan))
    IN  /\ ~ub
        /\ Len(tempstorage) < MaxArena
        /\ Cardinality({i \in 1..Len(tempstorage) :
                           tempstorage[i].kind = "state"}) < MaxSnap
        /\ tempstorage' = a.temp
        /\ tempsize' = a.tempsize
        /\ op' = "get"
        /\ prevop' = op
        /\ pre' = scan
        /\ arg' = ZeroTok
        /\ sarg' = Len(a.temp)
        /\ ev' = <<>>
        /\ hi' = 0
        /\ run' = <<>>
        /\ served' = 0
        /\ phase' = "idle"
        /\ snaps' = snaps \cup {[ptr |-> Len(a.temp), bufptr |-> scan.bufptr,
                                 toks |-> Pending(heap, scan.pushback,
                                                  MaxNodes + 1)]}
        /\ nscan' = -1
        /\ runbase' = 0
        /\ UNCHANGED <<line, scan, heap, tv, ub>>

\* stdscan_set(state), state a snapshot returned since the last reset
Set(state) ==
    /\ ~ub
    /\ state \in 1..Len(tempstorage)
    /\ tempstorage[state].kind = "state"
    /\ scan' = stdscan_set(tempstorage[state])
    /\ op' = "set"
    /\ prevop' = op
    /\ pre' = scan
    /\ arg' = ZeroTok
    /\ sarg' = state
    /\ ev' = <<>>
    /\ hi' = 0
    /\ run' = <<>>
    /\ served' = 0
    /\ phase' = "idle"
    /\ nscan' = -1
    /\ runbase' = 0
    /\ UNCHANGED <<line, heap, tempstorage, tempsize, tv, ub, snaps>>

Next ==
    \/ \E buffer \in ProtoLines : Reset(buffer)
    \/ Scan
    \/ \E t \in SynthTokens \cup {tv} : Pushback(t)
    \/ Get
    \/ \E state \in 1..MaxArena : Set(state)

Spec == Init /\ [][Next]_vars

\* one line, reset and scanned to its end any number of times
NextLex ==
    \/ Reset(line)
    \/ Scan

SpecLex == InitLex /\ [][NextLex]_vars

(***************************************************************************)
(* Properties of the pushback stack and of checkpoint/restore (Spec).      *)
(***************************************************************************)
ScanOps == {"scan_pop", "scan_fresh"}

\* C1: pushback(T) immediately followed by scan() returns a token equal to T
\* in every field, removes exactly the entry just pushed from the pushback
\* stack, and leaves the cursor, like the rest of the scanner state, as it
\* was before the pushback.
C1_pushback_then_scan ==
    [][(op = "pushback" /\ op' \in ScanOps) =>
          /\ op' = "scan_pop"
          /\ ~ub'
          /\ tv' = arg
          /\ scan' = pre
          /\ scan'.bufptr = scan.bufptr
          /\ heap' = [heap EXCEPT ![scan.pushback] = FreeNode]]_vars

\* a scanned number was pushed back on top of another pending entry and
\* has just been delivered again
C1_witness ==
    /\ op = "scan_pop"
    /\ prevop = "pushback"
    /\ tv.t_type = "TOKEN_NUM"
    /\ scan.pushback # 0
    /\ scan.bufptr > 1

\* the scans that follow a run of pushbacks T1..Tn deliver Tn, ..., T1
C2_lifo ==
    (phase = "run" /\ served \in 1..Len(run)) =>
        /\ op = "scan_pop"
        /\ ~ub
        /\ tv = run[Len(run) - served + 1]

\* the scan after them scans afresh from the cursor
C2_then_fresh ==
    (phase = "run" /\ served = Len(run) + 1) => op = "scan_fresh"

\* C2 as stated: after pushback of T1..Tn with no other operation in
\* between, the next n scans return Tn, ..., T1 in that order and the
\* (n+1)-th scan performs fresh scanning from the cursor.
C2_pushback_lifo_any_stack == C2_lifo /\ C2_then_fresh

\* C2 with the condition it needs: after pushback of T1..Tn with no other
\* operation in between, the next n scans return Tn, ..., T1 in that order,
\* and the (n+1)-th scan performs fresh scanning from the cursor if the
\* pushback stack was empty before T1 was pushed.
C2_pushback_lifo == C2_lifo /\ (runbase = 0 => C2_then_fresh)

\* two different tokens pushed onto an empty stack have come back in
\* reverse order and the third scan has scanned afresh
C2_witness ==
    /\ phase = "run"
    /\ Len(run) = 2
    /\ run[1] # run[2]
    /\ served = 3
    /\ runbase = 0
    /\ op = "scan_fresh"

\* C5: after reset(buffer), from any prior state, the pushback stack is
\* empty, the arena holds no entries, the cursor is at the start of buffer
\* and the sub-state is the initial one, so that no token pushed back
\* before the reset can be returned after it.
C5_reset_clears ==
    op = "reset" =>
        /\ ~ub
        /\ scan = [bufptr |-> 1, pushback |-> 0, sstate |-> "ss_init"]
        /\ tempstorage = <<>>
        /\ Pending(heap, scan.pushback, MaxNodes + 1) = <<>>

\* what the caller sees of a token: its fields, a pointer into the arena
\* replaced by the text it points at
TokView(t, temp) ==
    [tok |-> IF t.t_charptr.k = "arena"
             THEN [t EXCEPT !.t_charptr = ArenaPtr(0)] ELSE t,
     text |-> IF t.t_charptr.k = "arena" /\ t.t_charptr.i \in 1..Len(temp)
              THEN temp[t.t_charptr.i].text ELSE <<>>]

FreshView(r) == [view |-> TokView(r.tv, r.temp), bufptr |-> r.bufptr]

\* the token the next scan() returns and the cursor it ends at
NextScan(buf, st, hp, temp) ==
    IF st.pushback # 0
    THEN [view |-> TokView(hp[st.pushback].tv, temp), bufptr |-> st.bufptr]
    ELSE FreshView(stdscan_fresh(buf, [bufptr |-> st.bufptr, temp |-> temp,
                                       tempsize |-> 0, tv |-> ZeroTok,
                                       ev |-> <<>>, hi |-> 0]))

\* C6: s = checkpoint() immediately followed by restore(s) leaves cursor,
\* pushback stack and sub-state unchanged, so the next scan() returns the
\* same token and ends at the same cursor as it would have without the
\* pair (wherever a scan is defined at all).
C6_get_then_set ==
    [][(op = "get" /\ op' = "set" /\ sarg' = sarg) =>
          /\ scan' = pre
          /\ heap' = heap
          /\ line' = line
          /\ ~ub'
          /\ (/\ ~Dangling([scan |-> pre, heap |-> heap])
              /\ (pre.pushback # 0 \/ pre.bufptr # 0)) =>
                NextScan(line', scan', heap', tempstorage')
                  = NextScan(line, pre, heap,
                             SubSeq(tempstorage, 1, sarg - 1))]_vars

\* a snapshot taken in the middle of a line with a token pending has been
\* restored at once
C6_witness ==
    /\ op = "set"
    /\ prevop = "get"
    /\ sarg = Len(tempstorage)
    /\ scan.pushback # 0
    /\ ~Dangling([scan |-> scan, heap |-> heap])
    /\ scan.bufptr > 1

\* C7: after restore(s), whatever scans and pushbacks came since
\* s = checkpoint(), the scanner is where the checkpoint found it: the
\* cursor and the tokens pending on the pushback stack are those of the
\* checkpoint, so the scans that follow return the same tokens.
C7_restore_backtracks ==
    op = "set" =>
        \A s \in snaps :
            s.ptr = sarg =>
                /\ scan.bufptr = s.bufptr
                /\ Pending(heap, scan.pushback, MaxNodes + 1) = s.toks

(***************************************************************************)
(* Properties of fresh scanning (SpecLex).                                 *)
(***************************************************************************)
\* C3: after reset(line), every fresh scan that returns a token other than
\* end-of-stream advances the cursor by at least one character, an
\* end-of-stream leaves the cursor where every later scan returns it
\* again, and at most Len(line) tokens come before it.
C3_scans_reach_eos ==
    /\ (op = "scan_fresh" /\ tv.t_type # "TOKEN_EOS") => scan.bufptr > pre.bufptr
    /\ (op = "scan_fresh" /\ tv.t_type = "TOKEN_EOS") =>
           At(line, scan.bufptr) \in {NUL, ";"}
    /\ nscan <= Len(line)

\* a line of one-character tokens has been scanned to its end
C3_witness ==
    /\ op = "scan_fresh"
    /\ tv.t_type = "TOKEN_EOS"
    /\ Len(line) >= 3
    /\ nscan = Len(line)
    /\ scan.bufptr = Len(line) + 1

\* C4: the cursor never moves beyond the terminating null and no character
\* beyond it is read, the lookahead of $, exponent signs, braces and
\* operators included.
C4_no_read_past_null ==
    /\ hi <= Len(line) + 1
    /\ scan.bufptr <= Len(line) + 1

\* a >> at the very end of the line: the third character examined is the
\* terminating null
C4_witness ==
    /\ op = "scan_fresh"
    /\ tv.t_type = "TOKEN_SHR"
    /\ hi = Len(line) + 1
    /\ scan.bufptr = Len(line) + 1

Has(s, S) == \E i \in 1..Len(s) : s[i] \in S

\* the characters the last scan matched
Matched == SubSeq(line, tv.t_start, scan.bufptr - 1)

\* the last scan matched a numeric literal
IsLiteral ==
    /\ op = "scan_fresh"
    /\ tv.t_type # "TOKEN_EOS"
    /\ \/ nasm_isdigit(At(line, tv.t_start))
       \/ At(line, tv.t_start) = "$" /\ nasm_isdigit(At(line, tv.t_start + 1))

HexMarked(s) == s[1] = "$" \/ Has(s, {"h", "H", "x", "X"})

\* C8: a numeric literal that contains e/E and has no leading $ and no
\* h/H/x/X scans as a float token whose text is the matched characters;
\* one that contains e/E, has a hexadecimal marker and no ., p/P or sign is
\* handed to readnum and scans as an integer token, or as an
\* invalid-number token when readnum reports an error, never as a float.
C8_exponent_or_hex ==
    IsLiteral =>
        /\ (Has(Matched, {"e", "E"}) /\ ~HexMarked(Matched)) =>
              /\ tv.t_type = "TOKEN_FLOAT"
              /\ tv.t_charptr.k = "arena"
              /\ tempstorage[tv.t_charptr.i].text = Matched
              /\ ev = <<>>
        /\ (/\ Has(Matched, {"e", "E"})
            /\ HexMarked(Matched)
            /\ ~Has(Matched, {".", "p", "P", "+", "-"})) =>
              /\ tv.t_type \in {"TOKEN_NUM", "TOKEN_ERRNUM"}
              /\ ev = <<Call("readnum", "", Matched)>>
              /\ (tv.t_type = "TOKEN_ERRNUM") = readnum(Matched).error
              /\ tv.t_type = "TOKEN_NUM" =>
                    tv.t_integer = readnum(Matched).value

\* a literal like 1e1h has been scanned as an integer
C8_witness ==
    /\ IsLiteral
    /\ Len(Matched) = 4
    /\ Matched[2] \in {"e", "E"}
    /\ Matched[4] \in {"h", "H"}
    /\ tv.t_type = "TOKEN_NUM"
    /\ tv.t_integer > 0

\* the first non-blank character after the brace-content run of the braced
\* token the last scan matched
AfterBraceRun ==
    nasm_skip_spaces(line,
                     brc_end(line, nasm_skip_spaces(line, tv.t_start + 1)))

\* C9: whenever a { and its brace-content run are not followed, after
\* optional whitespace, by a closing }, scan() reports a diagnostic,
\* returns an invalid token, and leaves the cursor at end-of-line.
C9_unterminated_brace ==
    (/\ op = "scan_fresh"
     /\ At(line, tv.t_start) = "{"
     /\ At(line, AfterBraceRun) # "}") =>
        /\ Call("nasm_nonfatal", "unterminated braces at end of line", <<>>)
             \in {ev[i] : i \in 1..Len(ev)}
        /\ tv.t_type = "TOKEN_INVALID"
        /\ scan.bufptr = Len(line) + 1

\* the operator spellings of more than one character
OpTable ==
    { [s |-> <<">", ">", ">">>, type |-> "TOKEN_SAR"],
      [s |-> <<">", ">">>, type |-> "TOKEN_SHR"],
      [s |-> <<"<", "<", "<">>, type |-> "TOKEN_SHL"],
      [s |-> <<"<", "<">>, type |-> "TOKEN_SHL"],
      [s |-> <<"/", "/">>, type |-> "TOKEN_SDIV"],
      [s |-> <<"%", "%">>, type |-> "TOKEN_SMOD"],
      [s |-> <<"=", "=">>, type |-> "TOKEN_EQ"],
      [s |-> <<"<", ">">>, type |-> "TOKEN_NE"],
      [s |-> <<"!", "=">>, type |-> "TOKEN_NE"],
      [s |-> <<"<", "=", ">">>, type |-> "TOKEN_LEG"],
      [s |-> <<"<", "=">>, type |-> "TOKEN_LE"],
      [s |-> <<">", "=">>, type |-> "TOKEN_GE"],
      [s |-> <<"&", "&">>, type |-> "TOKEN_DBL_AND"],
      [s |-> <<"^", "^">>, type |-> "TOKEN_DBL_XOR"],
      [s |-> <<"|", "|">>, type |-> "TOKEN_DBL_OR"] }

\* the table spellings that are a prefix of the line at index p
OpPrefixes(p) ==
    {e \in OpTable : \A i \in 1..Len(e.s) : At(line, p + i - 1) = e.s[i]}

\* the last scan went to the operator branch
IsOperator ==
    /\ op = "scan_fresh"
    /\ At(line, tv.t_start)
         \notin {NUL, "$", "'", DQUOTE, BQUOTE, "{", ";"}
    /\ ~nasm_isidstart(At(line, tv.t_start))
    /\ ~nasm_isdigit(At(line, tv.t_start))

\* C10: in the operator branch the token type and the number of
\* characters consumed are those of the longest table spelling that is a
\* prefix of the input; if none is, one character is consumed and the
\* character itself is the token type.
C10_longest_operator ==
    IsOperator =>
        /\ scan.bufptr = tv.t_start + tv.t_len
        /\ IF OpPrefixes(tv.t_start) = {}
           THEN tv.t_len = 1 /\ tv.t_type = At(line, tv.t_start)
           ELSE \E e \in OpPrefixes(tv.t_start) :
                   /\ \A f \in OpPrefixes(tv.t_start) : Len(f.s) <= Len(e.s)
                   /\ tv.t_len = Len(e.s)
                   /\ tv.t_type = e.type

\* >>> taken whole out of >>>>
C10_witness ==
    /\ IsOperator
    /\ tv.t_type = "TOKEN_SAR"
    /\ tv.t_len = 3
    /\ At(line, scan.bufptr) = ">"

\* C11: when the cursor, after whitespace, is at the terminating null or
\* at a ;, scan() returns end-of-stream with lexeme length 0 and leaves the
\* cursor at that position; a scan that starts there leaves the scanner
\* state unchanged, so that every later scan with an empty pushback stack
\* returns end-of-stream again.
C11_eos_stable ==
    /\ (/\ op = "scan_fresh"
        /\ At(line, nasm_skip_spaces(line, pre.bufptr)) \in {NUL, ";"}) =>
          /\ tv.t_type = "TOKEN_EOS"
          /\ tv.t_len = 0
          /\ tv.t_start = nasm_skip_spaces(line, pre.bufptr)
          /\ scan.bufptr = nasm_skip_spaces(line, pre.bufptr)
    /\ (op = "scan_fresh" /\ At(line, pre.bufptr) \in {NUL, ";"}) => scan = pre
    /\ (op = "scan_fresh" /\ tv.t_type = "TOKEN_EOS") =>
          At(line, scan.bufptr) \in {NUL, ";"}

\* end-of-stream returned a second time at a ; that follows a token and
\* whitespace
C11_witness ==
    /\ op = "scan_fresh"
    /\ prevop = "scan_fresh"
    /\ tv.t_type = "TOKEN_EOS"
    /\ scan = pre
    /\ At(line, scan.bufptr) = ";"
    /\ scan.bufptr > 2
    /\ At(line, scan.bufptr - 1) = " "

\* the last scan matched a quoted string
IsString ==
    /\ op = "scan_fresh"
    /\ At(line, tv.t_start) \in {"'", DQUOTE, BQUOTE}

\* C12: for a quoted string, if the character at the position the unescape
\* collaborator returns differs from the opening quote, scan() returns an
\* invalid-string token and leaves the cursor at that position; otherwise
\* it advances one character past the closing quote and returns a string
\* token whose text points into the buffer at the opening quote and whose
\* secondary payload is the decoded length.
C12_string_close ==
    IsString =>
        IF At(line, nasm_unquote(line, tv.t_start).ep) # At(line, tv.t_start)
        THEN /\ tv.t_type = "TOKEN_ERRSTR"
             /\ scan.bufptr = nasm_unquote(line, tv.t_start).ep
        ELSE /\ tv.t_type = "TOKEN_STR"
             /\ scan.bufptr = nasm_unquote(line, tv.t_start).ep + 1
             /\ tv.t_charptr = BufPtr(tv.t_start)
             /\ tv.t_inttwo = nasm_unquote(line, tv.t_start).len

\* a string opened by ' and never closed by one, although a double quote
\* comes after it
C12_witness ==
    /\ IsString
    /\ tv.t_type = "TOKEN_ERRSTR"
    /\ At(line, tv.t_start) = "'"
    /\ Matched[Len(Matched)] = DQUOTE
    /\ At(line, scan.bufptr) = NUL

\* the positions of the characters the last scan matched
MatchedPos == tv.t_start..(scan.bufptr - 1)

\* the literal is marked hexadecimal before position i is reached
HexBefore(i) ==
    \/ At(line, tv.t_start) = "$"
    \/ \E j \in tv.t_start..(i - 1) : line[j] \in {"h", "H", "x", "X"}

\* position i of the literal holds an e/E that a sign follows in the line
SignedExponentAt(i) ==
    /\ i \in MatchedPos
    /\ line[i] \in {"e", "E"}
    /\ IsSign(At(line, i + 1))

\* C13 as stated: in every numeric literal an e/E immediately followed by
\* + or - makes the literal floating-point, the sign being consumed as
\* part of the literal, also when a leading $ or an earlier h/H/x/X has
\* marked the literal hexadecimal.
C13_signed_exponent_always_float ==
    IsLiteral =>
        \A i \in 1..Len(line) :
            SignedExponentAt(i) =>
                /\ tv.t_type = "TOKEN_FLOAT"
                /\ scan.bufptr > i + 1

\* C13 with the condition it needs: an e/E immediately followed by + or -
\* makes the literal a float token, the sign being consumed, provided the
\* literal is not yet marked hexadecimal (no leading $, no h/H/x/X before
\* the e/E; a marker that comes later changes nothing); in a literal
\* already marked hexadecimal the e/E is a digit, the sign is not consumed
\* and ends the literal, which is an integer or invalid-number token
\* unless something else made it a float.
C13_signed_exponent ==
    IsLiteral =>
        \A i \in 1..Len(line) :
            SignedExponentAt(i) =>
                IF HexBefore(i)
                THEN /\ scan.bufptr = i + 1
                     /\ ~Has(Matched, {".", "p", "P", "+", "-"}) =>
                            tv.t_type \in {"TOKEN_NUM", "TOKEN_ERRNUM"}
                ELSE /\ tv.t_type = "TOKEN_FLOAT"
                     /\ scan.bufptr > i + 1
                     /\ tv.t_charptr.k = "arena"
                     /\ tempstorage[tv.t_charptr.i].text = Matched

\* a float like 1e+h: the exponent sign came before the radix mark
C13_witness ==
    /\ IsLiteral
    /\ SignedExponentAt(tv.t_start + 1)
    /\ ~HexBefore(tv.t_start + 1)
    /\ Has(Matched, {"h", "H", "x", "X"})
    /\ tv.t_type = "TOKEN_FLOAT"
    /\ tv.t_len = 4

\* C14: a numeric literal whose matched run contains a . or a p/P scans as
\* a float token with the matched text copied verbatim into the arena,
\* whatever $ or h/H/x/X it holds; a p/P consumes one immediately
\* following + or - into the literal, and no second one.
C14_point_or_p_float ==
    IsLiteral =>
        /\ Has(Matched, {".", "p", "P"}) =>
              /\ tv.t_type = "TOKEN_FLOAT"
              /\ tv.t_charptr.k = "arena"
              /\ tempstorage[tv.t_charptr.i].text = Matched
              /\ ev = <<>>
        /\ \A i \in MatchedPos :
              (line[i] \in {"p", "P"} /\ IsSign(At(line, i + 1))) =>
                  /\ scan.bufptr > i + 1
                  /\ IsSign(At(line, i + 2)) => scan.bufptr = i + 2

\* a float like $1p+: hexadecimal from the start, with a signed binary
\* exponent
C14_witness ==
    /\ IsLiteral
    /\ tv.t_type = "TOKEN_FLOAT"
    /\ Len(Matched) = 4
    /\ Matched[1] = "$"
    /\ Matched[3] \in {"p", "P"}
    /\ IsSign(Matched[4])

\* the last scan started at a $
DollarStart == op = "scan_fresh" /\ At(line, tv.t_start) = "$"

\* a $ that starts an identifier or a number: a forced identifier when an
\* identifier-start character follows, a number marked hexadecimal (an e/E
\* in it is a digit, never an exponent) when a digit follows
DollarWord(c1) ==
    IF nasm_isidstart(c1)
    THEN tv.t_type = "TOKEN_ID" /\ ev = <<>>
    ELSE /\ tv.t_type \in {"TOKEN_NUM", "TOKEN_ERRNUM", "TOKEN_FLOAT"}
         /\ (tv.t_type = "TOKEN_FLOAT") = Has(Matched, {".", "p", "P"})
         /\ tv.t_type # "TOKEN_FLOAT" =>
               /\ ev = <<Call("readnum", "", Matched)>>
               /\ (tv.t_type = "TOKEN_ERRNUM") = readnum(Matched).error
               /\ tv.t_type = "TOKEN_NUM" =>
                     tv.t_integer = readnum(Matched).value

\* a $ followed by neither: $$ is the Base token, $ alone the Here token
DollarLocation(c1) ==
    tv.t_type = IF c1 = "$" THEN "TOKEN_BASE" ELSE "TOKEN_HERE"

\* C15 as stated: a leading $ is dispatched on the next character: a
\* forced identifier before an identifier-start character; otherwise, not
\* before a digit-class character, a location token whose recorded lexeme
\* length is 0, Base for $$ and Here for $ alone; otherwise a number
\* marked hexadecimal.
C15_dollar_zero_width ==
    DollarStart =>
        IF \/ nasm_isidstart(At(line, tv.t_start + 1))
           \/ nasm_isnumchar(At(line, tv.t_start + 1))
        THEN DollarWord(At(line, tv.t_start + 1))
        ELSE /\ DollarLocation(At(line, tv.t_start + 1))
             /\ tv.t_len = 0

\* C15 with the length the code records: a leading $ is dispatched on the
\* next character: a forced identifier before an identifier-start
\* character; otherwise, not before a digit-class character, a location
\* token, Base for $$ with lexeme length 2 and Here for $ alone with
\* lexeme length 1; otherwise a number marked hexadecimal.
C15_dollar_dispatch ==
    DollarStart =>
        IF \/ nasm_isidstart(At(line, tv.t_start + 1))
           \/ nasm_isnumchar(At(line, tv.t_start + 1))
        THEN DollarWord(At(line, tv.t_start + 1))
        ELSE /\ DollarLocation(At(line, tv.t_start + 1))
             /\ tv.t_len = IF At(line, tv.t_start + 1) = "$" THEN 2 ELSE 1
             /\ scan.bufptr = tv.t_start + tv.t_len

\* the Base token taken out of $$$
C15_witness ==
    /\ DollarStart
    /\ tv.t_type = "TOKEN_BASE"
    /\ tv.t_len = 2
    /\ At(line, scan.bufptr) = "$"

\* the last scan matched an identifier
IsIdent ==
    /\ op = "scan_fresh"
    /\ \/ nasm_isidstart(At(line, tv.t_start))
       \/ At(line, tv.t_start) = "$" /\ nasm_isidstart(At(line, tv.t_start + 1))

\* where its spelling starts, an optional leading $ not counted
IdentStart == IF At(line, tv.t_start) = "$" THEN tv.t_start + 1 ELSE tv.t_start

\* the number of characters of its spelling
IdentLen == scan.bufptr - IdentStart

\* C16: for an identifier of n characters (an optional leading $ not
\* counted) the cursor advances past the whole spelling, the stored text
\* is its first min(n, IDLEN_MAX-1) characters without the $, and if the
\* identifier is $-forced or n exceeds MAX_KEYWORD the token is a plain
\* identifier and the keyword lookup is not called.
C16_identifier_text ==
    IsIdent =>
        /\ \A i \in (IdentStart + 1)..(scan.bufptr - 1) : nasm_isidchar(line[i])
        /\ ~nasm_isidchar(At(line, scan.bufptr))
        /\ tv.t_charptr.k = "arena"
        /\ tempstorage[tv.t_charptr.i].text =
             SubSeq(line, IdentStart,
                    IdentStart - 1 + IF IdentLen < IDLEN_MAX - 1
                                     THEN IdentLen ELSE IDLEN_MAX - 1)
        /\ (At(line, tv.t_start) = "$" \/ IdentLen > MAX_KEYWORD) =>
              /\ tv.t_type = "TOKEN_ID"
              /\ ev = <<>>

\* a forced identifier of IDLEN_MAX characters has been stored short of
\* one character
C16_witness ==
    /\ IsIdent
    /\ At(line, tv.t_start) = "$"
    /\ IdentLen = IDLEN_MAX
    /\ Len(tempstorage[tv.t_charptr.i].text) = IDLEN_MAX - 1
    /\ scan.bufptr = Len(line) + 1

\* the last scan matched a braced token that has its closing }
IsBraced ==
    /\ op = "scan_fresh"
    /\ At(line, tv.t_start) = "{"
    /\ At(line, AfterBraceRun) = "}"

\* the content run of the braced token
BraceRun ==
    SubSeq(line, nasm_skip_spaces(line, tv.t_start + 1),
           brc_end(line, nasm_skip_spaces(line, tv.t_start + 1)) - 1)

\* the token type of a braced token whose content resolves to h
BracedType(h) ==
    IF h.t_flag \cap {"TFLAG_BRC", "TFLAG_BRC_OPT"} = {} THEN "TOKEN_INVALID"
    ELSE IF "TFLAG_BRC_OPT" \in h.t_flag /\ is_reg_class_OPMASKREG(h.t_integer)
    THEN "TOKEN_OPMASK"
    ELSE h.t_type

Calls == {ev[i] : i \in 1..Len(ev)}

\* C17: a braced token with its closing } is consumed through the } as
\* one token.  With a content run of at most MAX_KEYWORD characters its
\* text is the run, resolved by keyword lookup: the type is invalid, with
\* a diagnostic, if the flags do not allow the keyword in braces, the
\* opmask-usage type if they mark an optional mask whose value is an
\* opmask register, and the resolved type otherwise.  With a longer run
\* the token is invalid and no lookup is made.
C17_braced_token ==
    IsBraced =>
        /\ scan.bufptr = AfterBraceRun + 1
        /\ IF Len(BraceRun) <= MAX_KEYWORD
           THEN /\ tv.t_charptr.k = "arena"
                /\ tempstorage[tv.t_charptr.i].text = BraceRun
                /\ Call("nasm_token_hash", "", BraceRun) \in Calls
                /\ tv.t_type = BracedType(nasm_token_hash(BraceRun, ZeroTok))
                /\ tv.t_type = "TOKEN_INVALID" =>
                      Call("nasm_nonfatal", "`{%s}' is not a valid token",
                           BraceRun) \in Calls
           ELSE /\ tv.t_type = "TOKEN_INVALID"
                /\ \A c \in Calls : c.fn # "nasm_token_hash"

\* {k1} has been scanned as an opmask usage
C17_witness ==
    /\ IsBraced
    /\ BraceRun = <<"k", "1">>
    /\ tv.t_type = "TOKEN_OPMASK"
    /\ tv.t_len = 4

(***************************************************************************)
(* Properties of token positions, the arena and the pushback entries       *)
(* (Spec).                                                                 *)
(***************************************************************************)
\* C18: after every fresh scan the token's start is the first position at
\* or after the cursor of before the call that holds no whitespace, and
\* start + length is the cursor after the call (length 0 for
\* end-of-stream); a scan served from the pushback stack returns the start
\* and the length that were pushed.
C18_start_and_length ==
    [][/\ op' = "scan_fresh" =>
             /\ tv'.t_start = nasm_skip_spaces(line, scan.bufptr)
             /\ tv'.t_start + tv'.t_len = scan'.bufptr
             /\ tv'.t_type = "TOKEN_EOS" => tv'.t_len = 0
       /\ op' = "scan_pop" =>
             /\ ~ub'
             /\ heap[scan.pushback].live
             /\ tv'.t_start = heap[scan.pushback].tv.t_start
             /\ tv'.t_len = heap[scan.pushback].tv.t_len]_vars

\* C19: between two resets the arena only grows: the entries a token's
\* text pointer or a snapshot refers to stay where they are.  A fresh scan
\* that returns arena text returns the entry it has just allocated, a
\* checkpoint likewise, and a scan that returns an integer or an
\* invalid-number token leaves the entries of the arena exactly as they
\* were, its scratch copy being the one entry it popped.
C19_arena_entries_live ==
    [][/\ op' # "reset" =>
             /\ Len(tempstorage') >= Len(tempstorage)
             /\ SubSeq(tempstorage', 1, Len(tempstorage)) = tempstorage
       /\ (op' = "scan_fresh" /\ tv'.t_type \in {"TOKEN_NUM", "TOKEN_ERRNUM"}) =>
             /\ tempstorage' = tempstorage
             /\ tv'.t_charptr = NullPtr
       /\ (op' = "scan_fresh" /\ tv'.t_charptr.k = "arena") =>
             /\ tv'.t_charptr.i = Len(tempstorage')
             /\ Len(tempstorage') = Len(tempstorage) + 1
             /\ tempstorage'[tv'.t_charptr.i].kind = "text"
       /\ op' = "get" =>
             /\ sarg' = Len(tempstorage')
             /\ tempstorage'[sarg'].kind = "state"
       /\ \A s \in snaps' :
             /\ s.ptr \in 1..Len(tempstorage')
             /\ tempstorage'[s.ptr].kind = "state"
             /\ tempstorage'[s.ptr].bufptr = s.bufptr]_vars

\* an identifier's text and a snapshot are in the arena, and a number has
\* been scanned after them
C19_witness ==
    /\ op = "scan_fresh"
    /\ tv.t_type = "TOKEN_NUM"
    /\ Len(tempstorage) = 2
    /\ tempstorage[1].kind = "text"
    /\ tempstorage[2].kind = "state"
    /\ \E s \in snaps : s.ptr = 2

\* the entries met on the way down from the head, a freed one included
\* (the walk ends there)
RECURSIVE Reach(_, _, _)
Reach(hp, head, fuel) ==
    IF head = 0 \/ fuel = 0 THEN {}
    ELSE {head} \cup (IF hp[head].live THEN Reach(hp, hp[head].prev, fuel - 1)
                      ELSE {})

\* C20: every entry reachable from the head of the pushback stack has not
\* been popped and destroyed, every entry created and not yet popped is
\* reachable from the head, and no entry is destroyed twice.
C20_pushback_entries ==
    /\ ~ub
    /\ Reach(heap, scan.pushback, MaxNodes + 1) = {n \in Nodes : heap[n].live}

====
